---- MODULE Spec2Model ----
(***************************************************************************)
(* Paper-DJ controller: the application cycle (App.update), the            *)
(* calibration trigger (App.calibrate), the per-region trackers            *)
(* (InteractionTracking) and the MIDI mapping (MidiController).            *)
(*                                                                         *)
(* Brightness values are means of 8-bit pixels; they are kept in tenths    *)
(* (1280 is a mean of 128.0) so that the comparison against                *)
(* ref_brightness * 0.7 is exact integer arithmetic.                       *)
(*                                                                         *)
(* A frame is represented by what the code reads from it: the number of    *)
(* calibration markers seen in the raw frame, whether their geometry is    *)
(* degenerate, the camera pose it was taken from, the mean brightness of   *)
(* each button region of the rectified frame, and for each fader region    *)
(* the outcome of the contour search in the rectified frame.               *)
(*                                                                         *)
(* modules/calibration.py (class Calibration) is imported by main.py but   *)
(* is not among the sources; calculate_homography, apply_correction and   *)
(* the corner ordering (order_points) follow section 4.2 of the            *)
(* specification.  MidiController.process_event and the corner ordering    *)
(* are also exercised on their own (SpecMidi, SpecOrder) with inputs the   *)
(* application cycle does not produce.                                     *)
(*                                                                         *)
(* The state starts from constructed objects.  The HSV bounds of the       *)
(* marker colour are not part of the state (the outcome of the contour     *)
(* search is an input); as written, the np.array() calls that build them   *)
(* (main.py:20-21, interaction.py:32) lack their argument.                 *)
(*                                                                         *)
(* An exception that leaves process_frame leaves App.update before         *)
(* window.after is reached: Tk reports it and the update loop is not       *)
(* rescheduled, while the calibrate button keeps working.                  *)
(***************************************************************************)
EXTENDS Integers, Sequences, FiniteSets, TLC

\* ------------------------------------------------------------------ bounds
NumPoses == 2
MaxMarkers == 5
GridMax == 2

\* ------------------------------------------------------- configuration
ROIS == << [name |-> "play_button_1",  x |-> 50,  y |-> 100, w |-> 80,  h |-> 80],
           [name |-> "play_button_2",  x |-> 670, y |-> 100, w |-> 80,  h |-> 80],
           [name |-> "crossfader",     x |-> 250, y |-> 450, w |-> 300, h |-> 50],
           [name |-> "volume_fader_1", x |-> 120, y |-> 200, w |-> 50,  h |-> 200],
           [name |-> "volume_fader_2", x |-> 630, y |-> 200, w |-> 50,  h |-> 200] >>

RegionNames == { ROIS[i].name : i \in 1..Len(ROIS) }

\* 'button' in name
IsButton(name) == name \in {"play_button_1", "play_button_2"}

\* 'fader' in name
IsFader(name) == name \in {"crossfader", "volume_fader_1", "volume_fader_2"}

Buttons == { n \in RegionNames : IsButton(n) }
Faders == { n \in RegionNames : IsFader(n) /\ ~IsButton(n) }

Roi(name) == CHOOSE r \in { ROIS[i] : i \in 1..Len(ROIS) } : r.name = name

InitialRefBrightness == 1280
InitialFaderValue == 0
ThresholdNum == 7
ThresholdDen == 10

control_mapping ==
  [ n \in {"play_button_1", "play_button_2", "crossfader", "volume_fader_1",
           "volume_fader_2", "eq_high_knob_1", "eq_mid_knob_1", "eq_low_knob_1"} |->
      CASE n = "play_button_1"  -> [type |-> "note", channel |-> 1, id |-> 60]
        [] n = "play_button_2"  -> [type |-> "note", channel |-> 2, id |-> 60]
        [] n = "crossfader"     -> [type |-> "cc",   channel |-> 1, id |-> 10]
        [] n = "volume_fader_1" -> [type |-> "cc",   channel |-> 1, id |-> 11]
        [] n = "volume_fader_2" -> [type |-> "cc",   channel |-> 2, id |-> 11]
        [] n = "eq_high_knob_1" -> [type |-> "cc",   channel |-> 1, id |-> 20]
        [] n = "eq_mid_knob_1"  -> [type |-> "cc",   channel |-> 1, id |-> 21]
        [] n = "eq_low_knob_1"  -> [type |-> "cc",   channel |-> 1, id |-> 22] ]

\* ------------------------------------------------------------ frame inputs
\* mean brightness of a button region, in tenths
Brightness == {448, 896, 1280}

\* rows of a fader region at which the marker centroid is observed
CentroidRows(name) == {0, Roi(name).h \div 2, Roi(name).h - 1}

\* columns of a fader region at which the marker centroid is observed: along
\* the track of a region wider than tall, the middle column of the others
CentroidCols(name) ==
  IF Roi(name).w > Roi(name).h THEN {0, Roi(name).w \div 2, Roi(name).w - 1}
  ELSE {Roi(name).w \div 2}

\* outcome of findContours / moments in a fader region: the centroid of the
\* largest blob is (cX, cY) = (m10 / m00, m01 / m00)
Detections(name) ==
  { [kind |-> "no_contour", cX |-> 0, cY |-> 0], [kind |-> "zero_moment", cX |-> 0, cY |-> 0] }
  \cup { [kind |-> "blob", cX |-> c, cY |-> r] : c \in CentroidCols(name), r \in CentroidRows(name) }

NotVisited == [kind |-> "not_visited", cX |-> 0, cY |-> 0]

BrightFrames == [Buttons -> Brightness]

\* mean brightness of a button region in a frame taken for calibration
\* (the printed sheet without a hand on it)
RefBrightness == {896, 1280}
RefFrames == [Buttons -> RefBrightness]

FaderOrder == << "crossfader", "volume_fader_1", "volume_fader_2" >>

\* A region after the first one that shows a blob is never read (the call has
\* left with an exception by then), so frames are enumerated up to what is read:
\* such regions are listed as showing no contour.
ReadPrefix(d) ==
  \A i \in 1..Len(FaderOrder) : \A j \in 1..Len(FaderOrder) :
     (i < j /\ d[FaderOrder[i]].kind = "blob") => d[FaderOrder[j]].kind = "no_contour"

DetFrames ==
  { frame : frame \in { d \in [Faders -> UNION { Detections(f) : f \in Faders }] :
                          /\ \A f \in Faders : d[f] \in Detections(f)
                          /\ ReadPrefix(d) } }

\* frames in which at most one fader region shows a contour, a blob whose
\* centroid is in the middle of the region
QuietDetFrames ==
  { d \in DetFrames :
      /\ Cardinality({ f \in Faders : d[f].kind # "no_contour" }) <= 1
      /\ \A f \in Faders : d[f].kind # "no_contour" =>
            d[f] = [kind |-> "blob", cX |-> Roi(f).w \div 2, cY |-> Roi(f).h \div 2] }

\* frames in which both buttons are lit alike, covered or uncovered
PairedBrightFrames == { b \in BrightFrames : \E v \in {448, 1280} : \A n \in Buttons : b[n] = v }

\* ----------------------------------------------------------------- state
VARIABLES
  is_calibrated,    \* App.is_calibrated
  homography,       \* transform stored in the calibrator, NoHomography if none
  control_states,   \* InteractionTracking.control_states
  port_open,        \* MidiController.port_open
  scheduled,        \* App.update is pending in the Tk event queue
  window_open,      \* the window has not been destroyed
  op,               \* the last operation and the branch it took
  inMarkers,        \* markers seen in the frame of the last calibration attempt
  inBright,         \* button brightness of the last frame given to a tracker call
  inDet,            \* fader detection of the last tracked frame, per visited fader
  position,         \* per fader: the centroid coordinate handed to np.interp in that frame
  btnEvent,         \* what track_button returned per button in the last tracked frame
  trk,              \* what happened per region in the last tracked frame
  events,           \* list returned by the last process_frame call
  sent,             \* messages handed to midi_out.send_message in the last cycle
  lastAttempt,      \* outcome of the last calibration attempt that had a frame
  lastBtnEvent,     \* last event track_button returned per button, ever
  script,           \* per button: events of the frames matching the debounce script
  centroids,        \* the four marker centroids of a frame, in detection order
  corners           \* the corner roles assigned to them

vars == << is_calibrated, homography, control_states, port_open, scheduled,
           window_open, op, inMarkers, inBright, inDet, position, btnEvent, trk,
           events, sent, lastAttempt, lastBtnEvent, script, centroids, corners >>

NoHomography == 0
NoEvent == [type |-> "none", name |-> "", state |-> "", value |-> 0]
ButtonEvent(name, state) == [type |-> "button", name |-> name, state |-> state, value |-> 0]
FaderEvent(name, value) == [type |-> "fader", name |-> name, state |-> "", value |-> value]


NoBright == 0
NoMarkers == -1
NoBrightFrame == [b \in Buttons |-> NoBright]
NoDetFrame == [f \in Faders |-> NotVisited]
NoPosition == -1
NoPositions == [f \in Faders |-> NoPosition]
NoBtnEvents == [b \in Buttons |-> "none"]
NoTrk == [n \in RegionNames |-> "not_visited"]

\* ------------------------------------------------- InteractionTracking
initialize_control_states ==
  [ n \in RegionNames |->
      IF IsButton(n) THEN [pressed |-> FALSE, ref_brightness |-> InitialRefBrightness]
      ELSE [value |-> InitialFaderValue] ]

\* mutant: taking a new reference also marks every button as not pressed
update_reference_brightness_resetting(cs, bright) ==
  [ n \in RegionNames |->
      IF IsButton(n) THEN [pressed |-> FALSE, ref_brightness |-> bright[n]] ELSE cs[n] ]

\* mutant: every button takes the mean of the first button's region
update_reference_brightness_one_roi(cs, bright) ==
  [ n \in RegionNames |->
      IF IsButton(n) THEN [cs[n] EXCEPT !.ref_brightness = bright[ROIS[1].name]] ELSE cs[n] ]

\* ref_brightness of every button := mean of its region in the given frame
update_reference_brightness(cs, bright) ==
  [ n \in RegionNames |->
      IF IsButton(n) THEN [cs[n] EXCEPT !.ref_brightness = bright[n]] ELSE cs[n] ]

\* mutant: the press comparison written with <= instead of <
BelowOrAtThreshold(cur, ref) == ThresholdDen * cur <= ThresholdNum * ref

\* current_brightness < ref_brightness * threshold_factor
BelowThreshold(cur, ref) == ThresholdDen * cur < ThresholdNum * ref

\* mutant: the branches do not look at the stored pressed flag
track_button_stateless(cs, name, cur) ==
  IF BelowThreshold(cur, cs[name].ref_brightness)
    THEN [cs |-> [cs EXCEPT ![name].pressed = TRUE],
          event |-> ButtonEvent(name, "pressed")]
  ELSE [cs |-> [cs EXCEPT ![name].pressed = FALSE],
        event |-> ButtonEvent(name, "released")]

track_button(cs, name, cur) ==
  LET ref_brightness == cs[name].ref_brightness
      is_pressed == cs[name].pressed
  IN IF BelowThreshold(cur, ref_brightness) /\ ~is_pressed
       THEN [cs |-> [cs EXCEPT ![name].pressed = TRUE],
             event |-> ButtonEvent(name, "pressed")]
     ELSE IF ~BelowThreshold(cur, ref_brightness) /\ is_pressed
       THEN [cs |-> [cs EXCEPT ![name].pressed = FALSE],
             event |-> ButtonEvent(name, "released")]
     ELSE [cs |-> cs, event |-> NoEvent]

\* fader_height = roi_bgr.shape : the whole shape tuple (rows, columns, channels)
fader_height(name) == << Roi(name).h, Roi(name).w, 3 >>

\* np.interp(cY, [0, fader_height],) : called without the fp argument, the call
\* raises TypeError for every argument
np_interp(x, xp) == [raised |-> TRUE, value |-> 0]

\* the result record: the new control states, the event returned (NoEvent for
\* None), whether the call raised, and the coordinate it handed to np.interp
track_fader(cs, name, d) ==
  IF d.kind = "no_contour"
    THEN [cs |-> cs, event |-> NoEvent, raised |-> FALSE, position |-> NoPosition]
  ELSE IF d.kind = "zero_moment"
    THEN [cs |-> cs, event |-> NoEvent, raised |-> FALSE, position |-> NoPosition]
  ELSE LET cY == d.cY
           r == np_interp(cY, << 0, fader_height(name) >>)
       IN IF r.raised
            THEN [cs |-> cs, event |-> NoEvent, raised |-> TRUE, position |-> cY]
          ELSE IF r.value # cs[name].value
            THEN [cs |-> [cs EXCEPT ![name].value = r.value],
                  event |-> FaderEvent(name, r.value), raised |-> FALSE, position |-> cY]
          ELSE [cs |-> cs, event |-> NoEvent, raised |-> FALSE, position |-> cY]

\* mutant: the regions are visited in reverse configuration order
VisitOrderReversed == [ i \in 1..Len(ROIS) |-> ROIS[Len(ROIS) + 1 - i].name ]

\* order in which process_frame visits self.rois.items()
VisitOrder == [ i \in 1..Len(ROIS) |-> ROIS[i].name ]

RECURSIVE process_regions(_, _, _, _)
process_regions(i, acc, bright, det) ==
  IF i > Len(VisitOrder) \/ acc.raised THEN acc
  ELSE LET name == VisitOrder[i] IN
    IF IsButton(name)
      THEN LET r == track_button(acc.cs, name, bright[name])
           IN process_regions(i + 1,
                [acc EXCEPT !.cs = r.cs,
                            !.events = IF r.event # NoEvent THEN Append(@, r.event) ELSE @,
                            !.btnEvent[name] = IF r.event # NoEvent THEN r.event.state ELSE "none",
                            !.trk[name] = IF r.event # NoEvent THEN "event" ELSE "no_event"],
                bright, det)
    ELSE IF IsFader(name)
      THEN LET r == track_fader(acc.cs, name, det[name])
           IN process_regions(i + 1,
                [acc EXCEPT !.cs = r.cs,
                            !.raised = r.raised,
                            !.events = IF r.event # NoEvent THEN Append(@, r.event) ELSE @,
                            !.inDet[name] = det[name],
                            !.position[name] = r.position,
                            !.trk[name] = IF r.raised THEN "raised"
                                          ELSE IF r.event # NoEvent THEN "event"
                                          ELSE "no_event"],
                bright, det)
    ELSE process_regions(i + 1, [acc EXCEPT !.trk[name] = "no_event"], bright, det)

\* the result record: the new control states, the returned list, whether an
\* exception left the call, and what each region did
process_frame(cs, bright, det) ==
  process_regions(1, [cs |-> cs, events |-> << >>, raised |-> FALSE,
                      btnEvent |-> NoBtnEvents, trk |-> NoTrk, inDet |-> NoDetFrame,
                      position |-> NoPositions],
                  bright, det)

\* ------------------------------------------------------ MidiController
\* mutant: port_open is not looked at
process_event_unguarded(open, event) ==
  IF event.name \notin DOMAIN control_mapping THEN << >>
  ELSE LET mapping == control_mapping[event.name] IN
    IF event.type = "button" /\ mapping.type = "note"
      THEN << << 144 + (mapping.channel - 1), mapping.id,
                 IF event.state = "pressed" THEN 127 ELSE 0 >> >>
    ELSE IF event.type = "fader" /\ mapping.type = "cc"
      THEN << << 176 + (mapping.channel - 1), mapping.id, event.value >> >>
    ELSE << >>

\* mutant: a release is sent as note-off, status 0x80
process_event_note_off(open, event) ==
  IF ~open THEN << >>
  ELSE IF event.name \notin DOMAIN control_mapping THEN << >>
  ELSE LET mapping == control_mapping[event.name] IN
    IF event.type = "button" /\ mapping.type = "note"
      THEN IF event.state = "pressed"
             THEN << << 144 + (mapping.channel - 1), mapping.id, 127 >> >>
           ELSE << << 128 + (mapping.channel - 1), mapping.id, 0 >> >>
    ELSE IF event.type = "fader" /\ mapping.type = "cc"
      THEN << << 176 + (mapping.channel - 1), mapping.id, event.value >> >>
    ELSE << >>

\* mutant: the channel is not converted to rtmidi's 0-based numbering
process_event_one_based(open, event) ==
  IF ~open THEN << >>
  ELSE IF event.name \notin DOMAIN control_mapping THEN << >>
  ELSE LET mapping == control_mapping[event.name] IN
    IF event.type = "button" /\ mapping.type = "note"
      THEN << << 144 + (mapping.channel - 1), mapping.id,
                 IF event.state = "pressed" THEN 127 ELSE 0 >> >>
    ELSE IF event.type = "fader" /\ mapping.type = "cc"
      THEN << << 176 + mapping.channel, mapping.id, event.value >> >>
    ELSE << >>

\* the messages one process_event call hands to send_message (none or one)
process_event(open, event) ==
  IF ~open THEN << >>
  ELSE IF event.name \notin DOMAIN control_mapping THEN << >>
  ELSE LET mapping == control_mapping[event.name] IN
    IF event.type = "button" /\ mapping.type = "note"
      THEN << << 144 + (mapping.channel - 1), mapping.id,
                 IF event.state = "pressed" THEN 127 ELSE 0 >> >>
    ELSE IF event.type = "fader" /\ mapping.type = "cc"
      THEN << << 176 + (mapping.channel - 1), mapping.id, event.value >> >>
    ELSE << >>

RECURSIVE process_events(_, _)
process_events(open, evs) ==
  IF evs = << >> THEN << >>
  ELSE process_event(open, Head(evs)) \o process_events(open, Tail(evs))

\* ---------------------------------------------------------- Calibration
\* mutant: four or more markers are accepted
calculate_homography_at_least_four(H, markers, degenerate, pose) ==
  IF markers < 4 THEN [ok |-> FALSE, H |-> H]
  ELSE IF degenerate THEN [ok |-> FALSE, H |-> H]
  ELSE [ok |-> TRUE, H |-> pose]

\* specification 4.2: exactly four markers in a non-degenerate configuration
\* store the transform; any other frame fails and stores nothing
calculate_homography(H, markers, degenerate, pose) ==
  IF markers # 4 THEN [ok |-> FALSE, H |-> H]
  ELSE IF degenerate THEN [ok |-> FALSE, H |-> H]
  ELSE [ok |-> TRUE, H |-> pose]

\* TRUE when apply_correction returns a frame, FALSE when it returns none
apply_correction(H) == H # NoHomography

\* pixel positions of marker centroids
Points == [x : 0..GridMax, y : 0..GridMax]

NoPoint == [x |-> -1, y |-> -1]
NoCorners == [tl |-> NoPoint, tr |-> NoPoint, bl |-> NoPoint, br |-> NoPoint]

\* twice the signed area of the triangle a, b, c
Orient(a, b, c) == (b.x - a.x) * (c.y - a.y) - (b.y - a.y) * (c.x - a.x)

\* d lies strictly inside the triangle a, b, c
InsideTriangle(a, b, c, d) ==
  \/ Orient(a, b, d) > 0 /\ Orient(b, c, d) > 0 /\ Orient(c, a, d) > 0
  \/ Orient(a, b, d) < 0 /\ Orient(b, c, d) < 0 /\ Orient(c, a, d) < 0

\* four points, no three on a line, none inside the triangle of the others
ConvexQuadrilateral(q) ==
  /\ \A i \in 1..4 : \A j \in 1..4 : \A k \in 1..4 :
        (i < j /\ j < k) => Orient(q[i], q[j], q[k]) # 0
  /\ ~InsideTriangle(q[1], q[2], q[3], q[4])
  /\ ~InsideTriangle(q[1], q[2], q[4], q[3])
  /\ ~InsideTriangle(q[1], q[3], q[4], q[2])
  /\ ~InsideTriangle(q[2], q[3], q[4], q[1])

\* what the marker detector hands over: the four centroids in any order
Quadrilaterals ==
  { quad : quad \in { q \in [1..4 -> Points] : ConvexQuadrilateral(q) } }

\* the 24 orders of four positions
InputOrders == { pi \in [1..4 -> 1..4] : \A i \in 1..4 : \E j \in 1..4 : pi[j] = i }

\* positions of q sorted by key, equal keys staying in input order
SortedBy(idx, key) ==
  [ k \in 1..Len(idx) |->
      CHOOSE i \in 1..Len(idx) :
        Cardinality({ j \in 1..Len(idx) :
                        \/ key[idx[j]] < key[idx[i]]
                        \/ key[idx[j]] = key[idx[i]] /\ j < i }) = k - 1 ]

\* mutant: the remaining two are taken as they come, without the sort by x - y
order_points_without_difference(q) ==
  LET sum == [ i \in 1..4 |-> q[i].x + q[i].y ]
      all == [ i \in 1..4 |-> i ]
      bySum == SortedBy(all, sum)
      tl == all[bySum[1]]
      br == all[bySum[4]]
      rest == SelectSeq(all, LAMBDA i : i # tl /\ i # br)
  IN [tl |-> q[tl], tr |-> q[rest[1]], bl |-> q[rest[2]], br |-> q[br]]

\* specification 4.2: sort by x + y, the first is top-left and the last is
\* bottom-right; sort the remaining two by x - y, the first is top-right and the
\* last is bottom-left
order_points(q) ==
  LET sum == [ i \in 1..4 |-> q[i].x + q[i].y ]
      diff == [ i \in 1..4 |-> q[i].x - q[i].y ]
      all == [ i \in 1..4 |-> i ]
      bySum == SortedBy(all, sum)
      tl == all[bySum[1]]
      br == all[bySum[4]]
      rest == SelectSeq(all, LAMBDA i : i # tl /\ i # br)
      byDiff == SortedBy(rest, diff)
  IN [tl |-> q[tl], tr |-> q[rest[byDiff[1]]], bl |-> q[rest[byDiff[2]]], br |-> q[br]]

\* ------------------------------------------------- debounce script monitor
\* the brightness sequence [R, R, R*F*0.5, R*F*0.5, R] relative to the reference
ScriptMatches(i, cur, ref) ==
  IF i \in {3, 4} THEN 2 * ThresholdDen * cur = ThresholdNum * ref
  ELSE cur = ref

ScriptStep(s, wasPressed, cur, ref, ev) ==
  IF Len(s) > 0 /\ Len(s) < 5 /\ ScriptMatches(Len(s) + 1, cur, ref) THEN Append(s, ev)
  ELSE IF ~wasPressed /\ ScriptMatches(1, cur, ref) THEN << ev >>
  ELSE << >>

\* ------------------------------------------------------------------ Init
Init ==
  /\ is_calibrated = FALSE
  /\ homography = NoHomography
  /\ control_states = initialize_control_states
  /\ port_open \in BOOLEAN
  /\ scheduled = TRUE
  /\ window_open = TRUE
  /\ op = "init"
  /\ inMarkers = NoMarkers
  /\ inBright = NoBrightFrame
  /\ inDet = NoDetFrame
  /\ position = NoPositions
  /\ btnEvent = NoBtnEvents
  /\ trk = NoTrk
  /\ events = << >>
  /\ sent = << >>
  /\ lastAttempt = "none"
  /\ lastBtnEvent = NoBtnEvents
  /\ script = [b \in Buttons |-> << >>]
  /\ centroids = << >>
  /\ corners = NoCorners

\* --------------------------------------------------------------- actions
NoCycleOutput ==
  /\ inBright' = NoBrightFrame
  /\ inDet' = NoDetFrame
  /\ position' = NoPositions
  /\ btnEvent' = NoBtnEvents
  /\ trk' = NoTrk
  /\ events' = << >>
  /\ sent' = << >>

\* a cycle in which process_frame is not called
SkipCycle(name) ==
  /\ op' = name
  /\ NoCycleOutput
  /\ UNCHANGED << control_states, scheduled, lastBtnEvent, script >>

TrackCycle(bright, det) ==
  LET r == process_frame(control_states, bright, det) IN
    /\ op' = IF r.raised THEN "update_raised" ELSE "update_tracked"
    /\ control_states' = r.cs
    /\ inBright' = bright
    /\ inDet' = r.inDet
    /\ position' = r.position
    /\ btnEvent' = r.btnEvent
    /\ trk' = r.trk
    /\ events' = IF r.raised THEN << >> ELSE r.events
    /\ sent' = IF r.raised THEN << >> ELSE process_events(port_open, r.events)
    /\ scheduled' = ~r.raised
    /\ lastBtnEvent' = [b \in Buttons |->
         IF r.btnEvent[b] # "none" THEN r.btnEvent[b] ELSE lastBtnEvent[b]]
    /\ script' = [b \in Buttons |->
         ScriptStep(script[b], control_states[b].pressed, bright[b],
                    control_states[b].ref_brightness, r.btnEvent[b])]

\* mutant: the cycle asks only whether a transform is stored, not is_calibrated
update_on_ignoring_flag(BF, DF) ==
  /\ window_open
  /\ scheduled
  /\ \E got \in BOOLEAN :
       IF ~got THEN SkipCycle("update_noframe")
       ELSE IF ~apply_correction(homography) THEN SkipCycle("update_nocorrection")
       ELSE \E bright \in BF, det \in DF : TrackCycle(bright, det)
  /\ inMarkers' = NoMarkers
  /\ UNCHANGED << is_calibrated, homography, port_open, window_open, lastAttempt,
                  centroids, corners >>

\* mutant: a cycle without a frame returns before window.after is reached
update_on_stopping_without_frame(BF, DF) ==
  /\ window_open
  /\ scheduled
  /\ \E got \in BOOLEAN :
       IF ~got THEN /\ op' = "update_noframe"
                    /\ NoCycleOutput
                    /\ scheduled' = FALSE
                    /\ UNCHANGED << control_states, lastBtnEvent, script >>
       ELSE IF ~is_calibrated THEN SkipCycle("update_raw")
       ELSE IF ~apply_correction(homography) THEN SkipCycle("update_nocorrection")
       ELSE \E bright \in BF, det \in DF : TrackCycle(bright, det)
  /\ inMarkers' = NoMarkers
  /\ UNCHANGED << is_calibrated, homography, port_open, window_open, lastAttempt,
                  centroids, corners >>

\* App.update on the frames whose rectified content is in BF x DF
update_on(BF, DF) ==
  /\ window_open
  /\ scheduled
  /\ \E got \in BOOLEAN :
       IF ~got THEN SkipCycle("update_noframe")
       ELSE IF ~is_calibrated THEN SkipCycle("update_raw")
       ELSE IF ~apply_correction(homography) THEN SkipCycle("update_nocorrection")
       ELSE \E bright \in BF, det \in DF : TrackCycle(bright, det)
  /\ inMarkers' = NoMarkers
  /\ UNCHANGED << is_calibrated, homography, port_open, window_open, lastAttempt,
                  centroids, corners >>

update == update_on(BrightFrames, QuietDetFrames)

updateFaders == update_on(PairedBrightFrames, DetFrames)

\* what a successful attempt does after calculate_homography returned true
CalibrateSuccess(H, bright) ==
  /\ is_calibrated' = TRUE
  /\ homography' = H
  /\ lastAttempt' = "ok"
  /\ op' = "calibrate_ok"
  /\ IF apply_correction(H)
       THEN /\ control_states' = update_reference_brightness(control_states, bright)
            /\ inBright' = bright
            /\ script' = [b \in Buttons |-> << >>]
       ELSE /\ UNCHANGED << control_states, script >>
            /\ inBright' = NoBrightFrame

\* mutant: a failed attempt leaves is_calibrated as it was
CalibrateFrame_keeping_flag(markers, degenerate, pose, bright) ==
  /\ inMarkers' = markers
  /\ LET r == calculate_homography(homography, markers, degenerate, pose) IN
       IF r.ok
         THEN CalibrateSuccess(r.H, bright)
       ELSE /\ is_calibrated' = is_calibrated
            /\ homography' = r.H
            /\ lastAttempt' = "fail"
            /\ op' = "calibrate_fail"
            /\ inBright' = NoBrightFrame
            /\ UNCHANGED << control_states, script >>

\* mutant: is_calibrated is set before the result is looked at
CalibrateFrame_flag_first(markers, degenerate, pose, bright) ==
  /\ inMarkers' = markers
  /\ LET r == calculate_homography(homography, markers, degenerate, pose) IN
       IF r.ok
         THEN CalibrateSuccess(r.H, bright)
       ELSE /\ is_calibrated' = TRUE
            /\ homography' = r.H
            /\ lastAttempt' = "fail"
            /\ op' = "calibrate_fail"
            /\ inBright' = NoBrightFrame
            /\ UNCHANGED << control_states, script >>

CalibrateFrame(markers, degenerate, pose, bright) ==
  /\ inMarkers' = markers
  /\ LET r == calculate_homography(homography, markers, degenerate, pose) IN
       IF r.ok
         THEN CalibrateSuccess(r.H, bright)
       ELSE /\ is_calibrated' = FALSE
            /\ homography' = r.H
            /\ lastAttempt' = "fail"
            /\ op' = "calibrate_fail"
            /\ inBright' = NoBrightFrame
            /\ UNCHANGED << control_states, script >>

calibrate ==
  /\ window_open
  /\ \E got \in BOOLEAN :
       IF ~got
         THEN /\ op' = "calibrate_noframe"
              /\ inBright' = NoBrightFrame
              /\ inMarkers' = NoMarkers
              /\ UNCHANGED << is_calibrated, homography, control_states, lastAttempt, script >>
       ELSE \E markers \in 0..MaxMarkers :
              IF markers # 4
                THEN CalibrateFrame(markers, FALSE, 1, NoBrightFrame)
              ELSE \E degenerate \in BOOLEAN :
                     IF degenerate
                       THEN CalibrateFrame(markers, TRUE, 1, NoBrightFrame)
                     ELSE \E pose \in 1..NumPoses, bright \in RefFrames :
                            CalibrateFrame(markers, FALSE, pose, bright)
  /\ inDet' = NoDetFrame
  /\ position' = NoPositions
  /\ btnEvent' = NoBtnEvents
  /\ trk' = NoTrk
  /\ events' = << >>
  /\ sent' = << >>
  /\ UNCHANGED << port_open, scheduled, window_open, lastBtnEvent, centroids, corners >>

on_closing ==
  /\ window_open
  /\ window_open' = FALSE
  /\ scheduled' = FALSE
  /\ port_open' = FALSE
  /\ op' = "on_closing"
  /\ inMarkers' = NoMarkers
  /\ NoCycleOutput
  /\ UNCHANGED << is_calibrated, homography, control_states, lastAttempt,
                  lastBtnEvent, script, centroids, corners >>

Next == update \/ calibrate \/ on_closing

Spec == Init /\ [][Next]_vars

NextFaders == updateFaders \/ calibrate \/ on_closing

SpecFaders == Init /\ [][NextFaders]_vars

\* ------------------------------------------- MidiController on its own
\* the 7-bit values a fader event can carry
MidiValues == 0..127

\* events handed to process_event directly, as the module's own test does:
\* button and fader events for every mapped name and for a name without mapping
EventNames == DOMAIN control_mapping \cup {"unknown_control"}

DirectEvents ==
  { ButtonEvent(n, st) : n \in EventNames, st \in {"pressed", "released"} }
  \cup { FaderEvent(n, v) : n \in EventNames, v \in MidiValues }

\* the variables of the App and of the tracker, which a MidiController call
\* does not touch
AppUnchanged ==
  UNCHANGED << is_calibrated, homography, control_states, scheduled, window_open,
               inMarkers, inBright, inDet, position, btnEvent, trk,
               lastAttempt, lastBtnEvent, script, centroids, corners >>

\* open_virtual_port succeeds or raises
open_port ==
  /\ \E ok \in BOOLEAN : port_open' = ok
  /\ op' = "open_port"
  /\ events' = << >>
  /\ sent' = << >>
  /\ AppUnchanged

close_port ==
  /\ port_open' = FALSE
  /\ op' = "close_port"
  /\ events' = << >>
  /\ sent' = << >>
  /\ AppUnchanged

\* mutant: an event equal to the one of the previous call is not sent again
process_event_call_deduplicating ==
  /\ \E event \in DirectEvents :
       /\ events' = << event >>
       /\ sent' = IF events = << event >> THEN << >> ELSE process_event(port_open, event)
  /\ op' = "process_event"
  /\ UNCHANGED port_open
  /\ AppUnchanged

\* one call of process_event with an event of DirectEvents
process_event_call ==
  /\ \E event \in DirectEvents :
       /\ events' = << event >>
       /\ sent' = process_event(port_open, event)
  /\ op' = "process_event"
  /\ UNCHANGED port_open
  /\ AppUnchanged

NextMidi == open_port \/ close_port \/ process_event_call

SpecMidi == Init /\ [][NextMidi]_vars

\* --------------------------------------------- marker ordering on its own
\* a frame with four markers: the detector hands over their centroids
detect_markers ==
  /\ centroids = << >>
  /\ \E q \in Quadrilaterals :
       /\ centroids' = q
       /\ corners' = order_points(q)
  /\ op' = "detect_markers"
  /\ UNCHANGED << is_calibrated, homography, control_states, port_open, scheduled,
                  window_open, inMarkers, inBright, inDet, position, btnEvent, trk,
                  events, sent, lastAttempt, lastBtnEvent, script >>

\* a later frame of the same four markers: the detector hands them over in
\* another order
reorder_markers ==
  /\ centroids # << >>
  /\ \E pi \in InputOrders :
       /\ centroids' = [ i \in 1..4 |-> centroids[pi[i]] ]
       /\ corners' = order_points(centroids')
  /\ op' = "reorder_markers"
  /\ UNCHANGED << is_calibrated, homography, control_states, port_open, scheduled,
                  window_open, inMarkers, inBright, inDet, position, btnEvent, trk,
                  events, sent, lastAttempt, lastBtnEvent, script >>

NextOrder == detect_markers \/ reorder_markers

SpecOrder == Init /\ [][NextOrder]_vars

TypeOK ==
  /\ is_calibrated \in BOOLEAN
  /\ homography \in 0..NumPoses
  /\ port_open \in BOOLEAN
  /\ \A b \in Buttons : control_states[b].pressed \in BOOLEAN
  /\ \A f \in Faders : control_states[f].value \in 0..127


\* ================================================================ claims
TrackedOps == {"update_tracked", "update_raised"}
FrameCycleOps == {"update_raw", "update_nocorrection", "update_tracked", "update_raised"}
UpdateOps == FrameCycleOps \cup {"update_noframe"}

\* positions of the events of one region in an event list
EventsOf(evs, name) == { i \in 1..Len(evs) : evs[i].name = name }

\* C1: for every button and every frame given to process_frame: not pressed and
\* mean brightness strictly below reference x 0.7 makes the button pressed with
\* exactly one 'pressed' event; pressed and mean brightness at or above
\* reference x 0.7 makes it released with exactly one 'released' event; in every
\* other case the flag is unchanged and no event is emitted.
C1_ButtonTransition ==
  [][ op' \in TrackedOps =>
        \A b \in Buttons :
          LET below == 10 * inBright'[b] < 7 * control_states[b].ref_brightness
              was == control_states[b].pressed
              now == control_states'[b].pressed
              n == Cardinality(EventsOf(events', b))
          IN /\ (~was /\ below) =>
                  /\ now
                  /\ btnEvent'[b] = "pressed"
                  /\ op' = "update_tracked" =>
                       n = 1 /\ \A i \in EventsOf(events', b) : events'[i] = ButtonEvent(b, "pressed")
             /\ (was /\ ~below) =>
                  /\ ~now
                  /\ btnEvent'[b] = "released"
                  /\ op' = "update_tracked" =>
                       n = 1 /\ \A i \in EventsOf(events', b) : events'[i] = ButtonEvent(b, "released")
             /\ (was <=> below) =>
                  /\ now = was
                  /\ btnEvent'[b] = "none"
                  /\ n = 0
             /\ control_states'[b].ref_brightness = control_states[b].ref_brightness
    ]_vars

\* C1 witness: a pressed button was released by a frame whose mean brightness
\* equals reference x 0.7
C1_Witness ==
  /\ op = "update_tracked"
  /\ btnEvent["play_button_1"] = "released"
  /\ 10 * inBright["play_button_1"] = 7 * control_states["play_button_1"].ref_brightness
  /\ ~control_states["play_button_1"].pressed

DebounceScript == << "none", "none", "pressed", "none", "released" >>

\* C2: a button that starts not pressed and is fed [R, R, R*F*0.5, R*F*0.5, R]
\* yields Pressed on the third frame, Released on the fifth and nothing on the
\* others; and the events of one button alternate pressed, released, pressed,
\* ... starting with pressed.
C2_Debounce ==
  /\ [](\A b \in Buttons : script[b] = SubSeq(DebounceScript, 1, Len(script[b])))
  /\ [][ \A b \in Buttons :
           btnEvent'[b] # "none" =>
             /\ btnEvent'[b] # lastBtnEvent[b]
             /\ lastBtnEvent[b] = "none" => btnEvent'[b] = "pressed"
             /\ lastBtnEvent'[b] = btnEvent'[b]
       ]_vars

\* C2 witness: the whole five-frame script has been fed to a button
C2_Witness ==
  /\ Len(script["play_button_2"]) = 5
  /\ lastBtnEvent["play_button_2"] = "released"


BottomRow(f) == Roi(f).h - 1
MiddleRow(f) == Roi(f).h \div 2

\* the fader events of one region in an event list
FaderEventsOf(evs, f) == { i \in EventsOf(evs, f) : evs[i].type = "fader" }

\* C3: a fader event is emitted only if the newly mapped value differs from the
\* stored one, and emitting stores it: after a frame that shows the marker at the
\* bottom of the region (mapped value 127), either the stored value was 127
\* already, or exactly one fader event carrying the now stored value was emitted.
C3_FaderDedup ==
  \A f \in Faders :
    /\ Cardinality(FaderEventsOf(events, f)) <= 1
    /\ \A i \in FaderEventsOf(events, f) : events[i].value = control_states[f].value
    /\ (inDet[f].kind = "blob" /\ inDet[f].cY = BottomRow(f)) =>
         \/ control_states[f].value = 127
         \/ Cardinality(FaderEventsOf(events, f)) = 1

C5_FaderMapping ==
  \A f \in Faders :
    inDet[f].kind = "blob" =>
      /\ inDet[f].cY = 0 => control_states[f].value = 0
      /\ inDet[f].cY = BottomRow(f) => control_states[f].value = 127
      /\ inDet[f].cY = MiddleRow(f) => control_states[f].value \in {63, 64}

\* position of a region in the configuration
ConfigIndex(name) == CHOOSE i \in 1..Len(ROIS) : ROIS[i].name = name

\* C6: the list process_frame returns holds at most one event per region, in
\* configuration order.
C6_ConfigOrder ==
  /\ \A i \in 1..Len(events) : events[i].name \in RegionNames
  /\ \A i \in 1..Len(events) : \A j \in 1..Len(events) :
       i < j => ConfigIndex(events[i].name) < ConfigIndex(events[j].name)

\* C6 witness: two regions changed in the same frame
C6_Witness ==
  /\ op = "update_tracked"
  /\ Len(events) = 2
  /\ events[1] = ButtonEvent("play_button_1", "released")
  /\ events[2] = ButtonEvent("play_button_2", "pressed")


\* C7: the application is calibrated exactly when the most recent calibration
\* attempt that obtained a frame succeeded; a failed attempt clears the flag
\* also when it was set, a successful one sets it.
C7_CalibrationState ==
  /\ [](is_calibrated <=> lastAttempt = "ok")
  /\ [][ /\ op' = "calibrate_fail" => ~is_calibrated'
         /\ op' = "calibrate_ok" => is_calibrated'
         /\ op' \notin {"calibrate_fail", "calibrate_ok"} => is_calibrated' = is_calibrated
       ]_vars

\* C7 witness: an attempt failed while a transform from an earlier success was
\* stored, and the flag is cleared
C7_Witness ==
  /\ op = "calibrate_fail"
  /\ homography # NoHomography
  /\ ~is_calibrated

\* C8 as claimed: after a successful calibration followed by a failed attempt,
\* the following cycles still rectify the frame and run process_frame.
C8_Original ==
  (lastAttempt = "fail" /\ homography # NoHomography /\ op \in FrameCycleOps)
    => op \in TrackedOps

\* C8 as amended: a failed attempt leaves the stored transform untouched, but it
\* clears is_calibrated, so the cycles that follow it skip rectification and
\* tracking: no control state changes, no event, no message, until an attempt
\* succeeds.
C8_Amended ==
  /\ [](lastAttempt = "fail" /\ op \in FrameCycleOps =>
          op = "update_raw" /\ events = << >> /\ sent = << >>)
  /\ [][ /\ op' = "calibrate_fail" => homography' = homography
         /\ (lastAttempt = "fail" /\ op' \in UpdateOps) =>
              control_states' = control_states
       ]_vars

\* C8 witness: a cycle with a frame after a failed recalibration of a calibrated
\* session
C8_Witness ==
  /\ lastAttempt = "fail"
  /\ homography # NoHomography
  /\ op = "update_raw"

\* C9: an attempt on a frame that does not show exactly four markers fails and
\* leaves the stored transform as it was.
C9_MarkerCount ==
  [][ (inMarkers' # NoMarkers /\ inMarkers' # 4) =>
         /\ op' = "calibrate_fail"
         /\ ~is_calibrated'
         /\ homography' = homography
    ]_vars

\* C9 witness: an attempt with more than four markers while a transform was stored
C9_Witness ==
  /\ inMarkers > 4
  /\ op = "calibrate_fail"
  /\ homography # NoHomography

\* C10: in a cycle in which is_calibrated is false or apply_correction gives no
\* frame, process_frame is not called: no region is visited, no control state
\* changes, no event is returned and no message is sent; and nothing has been
\* emitted or sent before the first successful calibration.
C10_SkipUncalibrated ==
  /\ [][ (op' \in UpdateOps /\ (~is_calibrated \/ homography = NoHomography)) =>
           /\ op' \notin TrackedOps
           /\ control_states' = control_states
           /\ trk' = NoTrk
           /\ events' = << >>
           /\ sent' = << >>
       ]_vars
  /\ [](homography = NoHomography =>
          /\ events = << >>
          /\ sent = << >>
          /\ lastBtnEvent = NoBtnEvents
          /\ control_states = initialize_control_states)

\* C10 witness: a cycle with a frame before any calibration
C10_Witness ==
  /\ op = "update_raw"
  /\ homography = NoHomography
  /\ lastAttempt = "none"


\* C11: a cycle or a calibration trigger for which the frame source gives no
\* frame mutates nothing: is_calibrated, the stored transform, every pressed
\* flag, reference brightness and fader value are unchanged, nothing is emitted
\* or sent, and the update cycle is scheduled again.
C11_NoFrame ==
  [][ op' \in {"update_noframe", "calibrate_noframe"} =>
        /\ is_calibrated' = is_calibrated
        /\ homography' = homography
        /\ control_states' = control_states
        /\ port_open' = port_open
        /\ events' = << >>
        /\ sent' = << >>
        /\ scheduled' = scheduled
        /\ op' = "update_noframe" => scheduled'
    ]_vars

\* C11 witness: a frame-less cycle in a calibrated session with a pressed button
C11_Witness ==
  /\ op = "update_noframe"
  /\ is_calibrated
  /\ control_states["play_button_1"].pressed
  /\ scheduled

\* C12: a button's reference brightness changes only in a calibration attempt
\* that succeeded, to the mean of its region in the rectified calibration frame;
\* tracking, a failed attempt and a frame-less attempt leave it unchanged.
C12_ReferenceFixed ==
  [][ \A b \in Buttons :
        /\ op' # "calibrate_ok" =>
             control_states'[b].ref_brightness = control_states[b].ref_brightness
        /\ op' = "calibrate_ok" =>
             control_states'[b].ref_brightness = inBright'[b]
    ]_vars

\* C12 witness: a successful calibration has set two different references, one
\* of them different from the initial one
C12_Witness ==
  /\ op = "calibrate_ok"
  /\ control_states["play_button_1"].ref_brightness = 1280
  /\ control_states["play_button_2"].ref_brightness = 896

C14_Stateless ==
  [][ op' = "process_event" =>
        /\ port_open' = port_open
        /\ Len(events') = 1
        /\ Len(sent') <= 1
        /\ events'[1].name \notin DOMAIN control_mapping => sent' = << >>
        /\ (op = "process_event" /\ events' = events) => sent' = sent
    ]_vars

\* C14 witness: an event for a name without mapping was handed to an open port
C14_Witness ==
  /\ op = "process_event"
  /\ port_open
  /\ events = << ButtonEvent("unknown_control", "pressed") >>
  /\ sent = << >>

\* C15: with the port open, a button event for a region mapped to a note sends
\* exactly one message [0x90 + (channel - 1), note, velocity], velocity 127 for
\* 'pressed' and 0 for 'released'; a release is never sent with status 0x80.
C15_NoteOn ==
  /\ (op = "process_event" /\ port_open /\ events[1].type = "button") =>
       /\ events[1].name = "play_button_1" =>
            sent = << << 144, 60, IF events[1].state = "pressed" THEN 127 ELSE 0 >> >>
       /\ events[1].name = "play_button_2" =>
            sent = << << 145, 60, IF events[1].state = "pressed" THEN 127 ELSE 0 >> >>
  /\ \A i \in 1..Len(sent) : sent[i][1] \notin 128..143

\* C15 witness: the release of play_button_2 went out as note-on with velocity 0
C15_Witness ==
  /\ op = "process_event"
  /\ port_open
  /\ events = << ButtonEvent("play_button_2", "released") >>
  /\ sent = << << 145, 60, 0 >> >>

\* C16: with the port open, a fader event for a region mapped to a controller
\* sends exactly one message [0xB0 + (channel - 1), control, value] with the
\* event's value unchanged; for every value 0..127 the status byte is in
\* 0xB0..0xBF and both data bytes are in 0..127.
C16_ControlChange ==
  (op = "process_event" /\ port_open /\ events[1].type = "fader") =>
    LET e == events[1]
        expect(status, control) == sent = << << status, control, e.value >> >>
    IN /\ e.name = "crossfader" => expect(176, 10)
       /\ e.name = "volume_fader_1" => expect(176, 11)
       /\ e.name = "volume_fader_2" => expect(177, 11)
       /\ e.name = "eq_high_knob_1" => expect(176, 20)
       /\ e.name = "eq_mid_knob_1" => expect(176, 21)
       /\ e.name = "eq_low_knob_1" => expect(176, 22)
       /\ \A i \in 1..Len(sent) :
            /\ sent[i][1] \in 176..191
            /\ sent[i][2] \in 0..127
            /\ sent[i][3] \in 0..127

\* C16 witness: the largest value on the second channel
C16_Witness ==
  /\ op = "process_event"
  /\ port_open
  /\ events = << FaderEvent("volume_fader_2", 127) >>
  /\ sent = << << 177, 11, 127 >> >>

\* C17: while port_open is false no message is sent; a cycle with the port not
\* open still tracks: the events are returned, every button's flag follows the
\* brightness of its region as it does with an open port, and the cycle is
\* scheduled again.
C17_PortClosed ==
  [][ ~port_open' =>
        /\ sent' = << >>
        /\ op' = "update_tracked" =>
             /\ scheduled'
             /\ \A b \in Buttons :
                  LET below == 10 * inBright'[b] < 7 * control_states[b].ref_brightness
                  IN /\ control_states'[b].pressed = below
                     /\ (below # control_states[b].pressed) <=> EventsOf(events', b) # {}
    ]_vars

\* C17 witness: a cycle with the port not open returned a 'pressed' event and
\* sent nothing
C17_Witness ==
  /\ ~port_open
  /\ op = "update_tracked"
  /\ events = << ButtonEvent("play_button_1", "pressed") >>
  /\ control_states["play_button_1"].pressed
  /\ sent = << >>
  /\ scheduled

\* C18: calibrated and with the port open, a cycle whose rectified frame shows a
\* mean brightness below 89.6 in the region of a button that is not pressed and
\* has reference brightness 128 makes process_frame return exactly one 'pressed'
\* event for that button, and in the same cycle exactly one note-on with
\* velocity 127 on the mapped channel and note is sent; the messages of a cycle
\* are, in order, those of the mapped events returned.
C18_EndToEnd ==
  [][ (op' \in TrackedOps /\ is_calibrated /\ port_open) =>
        /\ \A b \in Buttons :
             ( /\ ~control_states[b].pressed
               /\ control_states[b].ref_brightness = 1280
               /\ inBright'[b] < 896 ) =>
                 /\ Cardinality(EventsOf(events', b)) = 1
                 /\ \A i \in EventsOf(events', b) : events'[i].state = "pressed"
                 /\ Cardinality({ i \in 1..Len(sent') :
                      sent'[i] = << 144 + (control_mapping[b].channel - 1),
                                    control_mapping[b].id, 127 >> }) = 1
        /\ Len(sent') = Len(events')
        /\ \A i \in 1..Len(events') :
             sent'[i] = << 144 + (control_mapping[events'[i].name].channel - 1),
                           control_mapping[events'[i].name].id,
                           IF events'[i].state = "pressed" THEN 127 ELSE 0 >>
    ]_vars

\* C19: the position of a fader is taken from the centroid's coordinate along
\* the long axis of its region: y for a region taller than wide, x for a region
\* wider than tall such as the 300 x 50 crossfader.
C19_LongAxis ==
  \A f \in Faders :
    inDet[f].kind = "blob" =>
      position[f] = IF Roi(f).w > Roi(f).h THEN inDet[f].cX ELSE inDet[f].cY

\* sums and differences of the coordinates of the four centroids
CoordSums(q) == [ i \in 1..4 |-> q[i].x + q[i].y ]
CoordDiffs(q) == [ i \in 1..4 |-> q[i].x - q[i].y ]

\* the smallest and the largest x + y are each attained by one point, and the
\* two other points differ in x - y
NoDecidingTie(q) ==
  LET s == CoordSums(q)
      d == CoordDiffs(q)
      lo == { i \in 1..4 : \A j \in 1..4 : s[i] <= s[j] }
      hi == { i \in 1..4 : \A j \in 1..4 : s[i] >= s[j] }
  IN /\ Cardinality(lo) = 1
     /\ Cardinality(hi) = 1
     /\ \A i \in 1..4 : \A j \in 1..4 :
          (i # j /\ i \notin lo \cup hi /\ j \notin lo \cup hi) => d[i] # d[j]

\* C20 (as stated): handing the same four points of a convex quadrilateral over
\* in another order never changes the corner roles assigned to them, also when
\* two points tie on x + y or on x - y.
C20_Original ==
  [][ op' = "reorder_markers" => corners' = corners ]_vars

\* C20 (amended): handing the same four points over in another order does not
\* change the corner roles when the smallest and the largest x + y are each
\* attained by one point and the two other points differ in x - y; top-left is
\* then the point of smallest x + y, bottom-right the one of largest x + y,
\* top-right the one of the other two with the smaller x - y.
C20_Amended ==
  [][ (op' = "reorder_markers" /\ NoDecidingTie(centroids)) =>
        /\ corners' = corners
        /\ \A i \in 1..4 :
             /\ corners'.tl.x + corners'.tl.y <= centroids'[i].x + centroids'[i].y
             /\ corners'.br.x + corners'.br.y >= centroids'[i].x + centroids'[i].y
        /\ corners'.tr.x - corners'.tr.y < corners'.bl.x - corners'.bl.y
        /\ { corners'.tl, corners'.tr, corners'.bl, corners'.br }
             = { centroids'[i] : i \in 1..4 }
    ]_vars

\* C20 witness: the corners of a square handed over in reverse order, two of
\* them tying on x + y
C20_Witness ==
  /\ op = "reorder_markers"
  /\ centroids = << [x |-> 2, y |-> 2], [x |-> 0, y |-> 2],
                    [x |-> 2, y |-> 0], [x |-> 0, y |-> 0] >>
  /\ corners = [tl |-> [x |-> 0, y |-> 0], tr |-> [x |-> 0, y |-> 2],
                bl |-> [x |-> 2, y |-> 0], br |-> [x |-> 2, y |-> 2]]

\* C21: right after every process_frame call each button's pressed flag says
\* whether the frame's mean brightness in its region was strictly below the
\* reference in force x 0.7, whatever the flag was before; taking a new
\* reference changes no pressed flag and no fader value.
C21_FlagFollowsFrame ==
  [][ /\ op' \in TrackedOps =>
           \A b \in Buttons :
             /\ control_states'[b].ref_brightness = control_states[b].ref_brightness
             /\ control_states'[b].pressed
                  = (10 * inBright'[b] < 7 * control_states'[b].ref_brightness)
      /\ op' \in {"calibrate_ok", "calibrate_fail", "calibrate_noframe"} =>
           /\ \A b \in Buttons : control_states'[b].pressed = control_states[b].pressed
           /\ \A f \in Faders : control_states'[f].value = control_states[f].value
    ]_vars

\* C21 witness: a frame below 0.7 x a reference taken by a calibration leaves
\* the button pressed; it was pressed before, so no event is returned
C21_Witness ==
  /\ op = "update_tracked"
  /\ control_states["play_button_1"].ref_brightness = 896
  /\ inBright["play_button_1"] = 448
  /\ control_states["play_button_1"].pressed
  /\ events = << >>

\* C22: a fader's stored value starts at 0, so the first detection is compared
\* with 0: while no fader event was emitted and the stored value is 0, a frame
\* whose centroid maps to 0 (top row) emits no event and stores nothing; one
\* whose centroid maps to a value v other than 0 (middle row, bottom row) emits
\* exactly one fader event carrying v, which is then the stored value.
C22_FirstDetection ==
  [][ (op' \in TrackedOps) =>
        \A f \in Faders :
          (control_states[f].value = 0 /\ inDet'[f].kind = "blob") =>
            IF inDet'[f].cY = 0
              THEN /\ FaderEventsOf(events', f) = {}
                   /\ control_states'[f].value = 0
            ELSE /\ Cardinality(FaderEventsOf(events', f)) = 1
                 /\ \A i \in FaderEventsOf(events', f) :
                      /\ events'[i].value = control_states'[f].value
                      /\ events'[i].value # 0
                 /\ inDet'[f].cY = BottomRow(f) => control_states'[f].value = 127
    ]_vars

====
